---------------------------- MODULE Spec2Model ----------------------------
(***************************************************************************)
(* django-conditional-views: the conditional-GET mixins of                 *)
(* src/src/django_conditional_views/views.py and the validator elements of *)
(* src/src/django_conditional_views/elements/.                             *)
(*                                                                         *)
(* Representation.                                                         *)
(*   - A str or bytes value is a sequence of character / byte codes.       *)
(*   - An optional value is a sequence of length <= 1: << >> is None and   *)
(*     <<x>> is the value x.  An optional etag string is the string itself *)
(*     (None and '' are both falsy and the code never tells them apart).   *)
(*   - A datetime is [wall |-> w, off |-> o]: the wall-clock reading and   *)
(*     the UTC offset of its tzinfo, both in ticks; Sub ticks make one     *)
(*     second.  Its absolute instant is wall - off.                        *)
(*   - Django (get_conditional_response, quote_etag, http_date,            *)
(*     SimpleTemplateResponse, the generic views) is modelled at the call  *)
(*     sites of views.py from its documented behaviour.                    *)
(***************************************************************************)
EXTENDS Integers, Sequences, FiniteSets, TLC

(***************************************************************************)
(* Bounds of the model.                                                    *)
(***************************************************************************)
\* Instants range over the ticks of the epoch seconds 0 .. MaxSec.
MaxSec == 3
\* Rows a queryset holds at most.
MaxRows == 3
\* Length of a user-configured element list in the aggregation specification.
MaxElems == 3
\* Conditional headers one request carries at most.
MaxHeaders == 2
\* Dispatches that may extend a class-level element list shared by instances.
MaxShared == 1
\* Calls of render() the caller makes on one response.
MaxRenders == 2

\* Ticks per second: timegm(utctimetuple()) keeps whole seconds only.
Sub == 2

None == << >>
Some(x) == <<x>>
IsNone(o) == o = << >>

(***************************************************************************)
(* Characters and bytes.                                                   *)
(***************************************************************************)
DQUOTE == <<34>>
WeakPrefix == <<87, 47>>
Star == <<42>>
\* 'T' and 'é': one ASCII character, one that UTF-8 encodes in two bytes.
Chars == {84, 233}
Bytes == {84, 195, 169}

Utf8(c) == IF c < 128 THEN <<c>> ELSE <<192 + (c \div 64), 128 + (c % 64)>>

RECURSIVE StrEncode(_)
StrEncode(s) == IF s = << >> THEN << >> ELSE Utf8(Head(s)) \o StrEncode(Tail(s))

\* hashlib.md5(b).hexdigest(): a non-empty string without quote characters,
\* modelled as a collision-free digest.
Md5Hex(b) == <<109>> \o b

(***************************************************************************)
(* ETag contributions: the value an etag element returns.                  *)
(***************************************************************************)
NoContribution == [t |-> "none", v |-> << >>]
StrC(s) == [t |-> "str", v |-> s]
BytesC(b) == [t |-> "bytes", v |-> b]
TruthyCNotNone(c) == c.t # "none"

\* Python truthiness of a contribution: None, '' and b'' are falsy.
TruthyC(c) == c.t # "none" /\ c.v # << >>

RECURSIVE JoinBytes(_)
JoinBytes(bs) == IF bs = << >> THEN << >> ELSE Head(bs) \o JoinBytes(Tail(bs))

RenderEtagElementsLength(elements) ==
    LET kept == SelectSeq(elements, TruthyC)
        enc == [i \in 1..Len(kept) |->
                   IF kept[i].t = "str" THEN StrEncode(kept[i].v) ELSE kept[i].v]
    IN IF kept = << >> THEN None ELSE Md5Hex(<<Len(JoinBytes(enc))>>)

RenderEtagElementsReversed(elements) ==
    LET kept == SelectSeq(elements, TruthyC)
        enc == [i \in 1..Len(kept) |->
                   IF kept[Len(kept) + 1 - i].t = "str"
                   THEN StrEncode(kept[Len(kept) + 1 - i].v)
                   ELSE kept[Len(kept) + 1 - i].v]
    IN IF kept = << >> THEN None ELSE Md5Hex(JoinBytes(enc))

\* ConditionalGetMixin._render_etag_elements
RenderEtagElements(elements) ==
    LET kept == SelectSeq(elements, TruthyC)
        enc == [i \in 1..Len(kept) |->
                   IF kept[i].t = "str" THEN StrEncode(kept[i].v) ELSE kept[i].v]
    IN IF kept = << >> THEN None ELSE Md5Hex(JoinBytes(enc))

(***************************************************************************)
(* quote_etag and the etag formatting helpers.                             *)
(***************************************************************************)
\* ETAG_MATCH: \A((?:W/)?"[^"]*")\Z
EtagMatch(s) ==
    LET body == IF Len(s) >= 2 /\ SubSeq(s, 1, 2) = WeakPrefix
                THEN SubSeq(s, 3, Len(s)) ELSE s
    IN /\ Len(body) >= 2
       /\ <<body[1]>> = DQUOTE
       /\ <<body[Len(body)]>> = DQUOTE
       /\ \A i \in 2..(Len(body) - 1) : <<body[i]>> # DQUOTE

QuoteEtagAgain(s) == DQUOTE \o s \o DQUOTE

\* django.utils.http.quote_etag: a value in the quoted form is returned as is.
QuoteEtag(s) == IF EtagMatch(s) THEN s ELSE DQUOTE \o s \o DQUOTE

\* ConditionalGetMixin._format_etag
FormatEtag(etag) == IF etag = << >> THEN None ELSE QuoteEtag(etag)

PrepEtagUnquoted(etag) == etag

\* ConditionalGetMixin._prep_etag
PrepEtag(etag) == FormatEtag(etag)

(***************************************************************************)
(* Datetimes and the last-modified helpers.                                *)
(***************************************************************************)
Dt(w, o) == [wall |-> w, off |-> o]
Utc(d) == d.wall - d.off
\* The UTC offset of the process's local time zone (one second east).
LocalOff == Sub
UtcDt(t) == Dt(t, 0)
LocalDt(t) == Dt(t + LocalOff, LocalOff)

\* Python truthiness of an Optional[int]: None and 0 are falsy.
TruthyNum(o) == o # << >> /\ o[1] # 0

PrepLastModifiedWall(last_modified) ==
    IF last_modified = << >> THEN None
    ELSE Some(last_modified[1].wall \div Sub)

\* ConditionalGetMixin._prep_last_modified: an Optional[datetime] to epoch
\* seconds; a datetime is always truthy.
PrepLastModified(last_modified) ==
    IF last_modified = << >> THEN None
    ELSE Some(Utc(last_modified[1]) \div Sub)

\* django.utils.http.http_date on whole epoch seconds, and its parser.
HttpDate(secs) == <<"GMT", secs>>
ParseHttpDate(h) == h[2]

\* ConditionalGetMixin._format_last_modified on the epoch seconds dispatch
\* passes around.
FormatLastModified(last_modified) ==
    IF ~TruthyNum(last_modified) THEN None
    ELSE Some(HttpDate(last_modified[1]))

\* The Union[int, float, datetime, None] that _format_last_modified and
\* set_response_headers accept: nothing, a timestamp or a datetime.
NumArg(n) == Some([t |-> "num", v |-> n])
DtArg(d) == Some([t |-> "datetime", v |-> d])

TruthyArgNotNone(a) == a # None

\* `if last_modified:` / `if not last_modified:` on such a value: nothing
\* and the number 0 are falsy, a datetime is truthy whatever its instant.
TruthyArg(a) == a # None /\ (a[1].t = "num" => a[1].v # 0)

FormatLastModifiedArgWall(a) ==
    IF ~TruthyArg(a) THEN None
    ELSE IF a[1].t = "datetime" THEN Some(HttpDate(a[1].v.wall \div Sub))
    ELSE Some(HttpDate(a[1].v))

\* ConditionalGetMixin._format_last_modified, lines 216-222, on any of them:
\* a datetime is first normalized by _prep_last_modified.
FormatLastModifiedArg(a) ==
    IF ~TruthyArg(a) THEN None
    ELSE IF a[1].t = "datetime" THEN Some(HttpDate(PrepLastModified(Some(a[1].v))[1]))
    ELSE Some(HttpDate(a[1].v))

\* max() over datetimes: the first element with the greatest instant.
MaxDt(ds) ==
    LET i == CHOOSE i \in 1..Len(ds) :
                /\ \A j \in 1..Len(ds) : Utc(ds[j]) <= Utc(ds[i])
                /\ \A j \in 1..(i - 1) : Utc(ds[j]) < Utc(ds[i])
    IN ds[i]

IsSome(o) == o # << >>

AggregateLastModifiedFirst(values) ==
    LET kept == SelectSeq(values, IsSome)
    IN IF kept = << >> THEN None ELSE kept[1]

\* ConditionalGetMixin.get_last_modified, lines 64-68: the values the
\* elements returned, blank ones dropped, the maximum of the rest.
AggregateLastModified(values) ==
    LET kept == SelectSeq(values, IsSome)
    IN IF kept = << >> THEN None
       ELSE Some(MaxDt([i \in 1..Len(kept) |-> kept[i][1]]))

(***************************************************************************)
(* django.utils.cache.get_conditional_response, as called by               *)
(* ConditionalGetMixin._get_conditional_response for a GET request.  A     *)
(* request is [if_match, if_none_match, ims, ius]: the two etag headers as *)
(* parse_etags returns them (<< >> when absent, <<Star>> for "*"), the two *)
(* date headers as optional HTTP dates.                                    *)
(***************************************************************************)
RECURSIVE StripLeftW(_)
StripLeftW(s) ==
    IF s # << >> /\ (<<s[1]>> = <<87>> \/ <<s[1]>> = <<47>>)
    THEN StripLeftW(Tail(s)) ELSE s

RECURSIVE StripRightW(_)
StripRightW(s) ==
    IF s # << >> /\ (<<s[Len(s)]>> = <<87>> \/ <<s[Len(s)]>> = <<47>>)
    THEN StripRightW(SubSeq(s, 1, Len(s) - 1)) ELSE s

\* str.strip('W/')
StripW(s) == StripRightW(StripLeftW(s))

InSeq(x, s) == \E i \in 1..Len(s) : s[i] = x

IfMatchPasses(target_etag, etags) ==
    IF target_etag = << >> THEN FALSE
    ELSE IF etags = <<Star>> THEN TRUE
    ELSE IF Len(target_etag) >= 2 /\ SubSeq(target_etag, 1, 2) = WeakPrefix THEN FALSE
    ELSE InSeq(target_etag, etags)

IfUnmodifiedSincePasses(last_modified, if_unmodified_since) ==
    TruthyNum(last_modified) /\ last_modified[1] <= if_unmodified_since[1]

IfNoneMatchPasses(target_etag, etags) ==
    IF target_etag = << >> THEN TRUE
    ELSE IF etags = <<Star>> THEN FALSE
    ELSE ~InSeq(StripW(target_etag), [i \in 1..Len(etags) |-> StripW(etags[i])])

IfModifiedSincePasses(last_modified, if_modified_since) ==
    ~TruthyNum(last_modified) \/ last_modified[1] > if_modified_since[1]

ParseDateHeader(h) == IF h = << >> THEN None ELSE Some(ParseHttpDate(h[1]))

\* The verdict: "proceed" (None is returned), "304" or "412".
Verdict(request, etag, last_modified) ==
    LET if_match_etags == request.if_match
        if_unmodified_since == ParseDateHeader(request.ius)
        if_none_match_etags == request.if_none_match
        if_modified_since == ParseDateHeader(request.ims)
    IN IF if_match_etags # << >> /\ ~IfMatchPasses(etag, if_match_etags)
       THEN "412"
       ELSE IF /\ if_match_etags = << >>
               /\ TruthyNum(if_unmodified_since)
               /\ ~IfUnmodifiedSincePasses(last_modified, if_unmodified_since)
       THEN "412"
       ELSE IF if_none_match_etags # << >> /\ ~IfNoneMatchPasses(etag, if_none_match_etags)
       THEN "304"
       ELSE IF /\ if_none_match_etags = << >>
               /\ TruthyNum(if_modified_since)
               /\ ~IfModifiedSincePasses(last_modified, if_modified_since)
       THEN "304"
       ELSE "proceed"

(***************************************************************************)
(* Responses.  [status, etag, lm, hasRender, rendered, streaming, content, *)
(* callbacks]: the status code (0: no response), the ETag and              *)
(* Last-Modified headers, whether the object is a SimpleTemplateResponse   *)
(* (render() and add_post_render_callback), its is_rendered and streaming  *)
(* flags, its content and the number of registered post-render callbacks.  *)
(***************************************************************************)
Response(status, hasRender, streaming) ==
    [status |-> status, etag |-> None, lm |-> None, hasRender |-> hasRender,
     rendered |-> FALSE, streaming |-> streaming, content |-> << >>,
     callbacks |-> 0]

NoResponse == Response(0, FALSE, FALSE)

ConditionalResponseOk(verdict) ==
    IF verdict \in {"304", "412"} THEN Response(200, FALSE, FALSE) ELSE NoResponse

\* _not_modified(request) and _precondition_failed(request): a new response
\* that carries neither header (no response is handed over to copy from).
ConditionalResponse(verdict) ==
    IF verdict = "304" THEN Response(304, FALSE, FALSE)
    ELSE IF verdict = "412" THEN Response(412, FALSE, FALSE)
    ELSE NoResponse

\* ConditionalGetMixin._get_conditional_response
GetConditionalResponse(request, etag, last_modified) ==
    ConditionalResponse(Verdict(request, etag, last_modified))

SetResponseHeadersClearing(response, etag, last_modified) ==
    [response EXCEPT !.etag = FormatEtag(etag),
                     !.lm = FormatLastModified(last_modified)]

SetResponseHeadersNoEtag(response, etag, last_modified) ==
    [response EXCEPT
        !.lm = IF TruthyNum(last_modified)
               THEN FormatLastModified(last_modified) ELSE @]

\* ConditionalGetMixin.set_response_headers
SetResponseHeaders(response, etag, last_modified) ==
    [response EXCEPT
        !.etag = IF etag # << >> THEN FormatEtag(etag) ELSE @,
        !.lm = IF TruthyNum(last_modified)
               THEN FormatLastModified(last_modified) ELSE @]

(***************************************************************************)
(* View classes and validator elements.                                    *)
(*                                                                         *)
(* A view class is [kind, lmDeclared, preElems, postElems, field,          *)
(* streaming]: which mixin it is built from, the three element lists it    *)
(* declares (<< >>: None), its last_modified_field and whether the         *)
(* response its handler builds is a streaming one.                         *)
(*   "base"   ConditionalGetMixin + View, the handler returns HttpResponse *)
(*   "tmpl"   ConditionalGetMixin + TemplateView                           *)
(*   "ctmpl"  ConditionalGetTemplateViewMixin + TemplateView               *)
(*   "detail" ConditionalGetDetailViewMixin + DetailView                   *)
(*   "list"   ConditionalGetListViewMixin + ListView                       *)
(* A last-modified element is [e, cls, v, f]: what it is, whether the list *)
(* holds the class or an instance, the value a plain callable returns and  *)
(* the field an Object/QuerySet element reads.  An etag element is         *)
(* [e, cls, c] with c the contribution a plain callable returns.           *)
(***************************************************************************)
LmLambda(v) == [e |-> "lambda", cls |-> FALSE, v |-> v, f |-> ""]
TemplateLastModified == [e |-> "TemplateLastModified", cls |-> TRUE, v |-> None, f |-> ""]
ObjectLastModified(f) == [e |-> "ObjectLastModified", cls |-> FALSE, v |-> None, f |-> f]
QuerySetLastModified(f) == [e |-> "QuerySetLastModified", cls |-> FALSE, v |-> None, f |-> f]
EtagLambda(c) == [e |-> "lambda", cls |-> FALSE, c |-> c]
RenderedContentEtag == [e |-> "RenderedContentEtag", cls |-> TRUE, c |-> NoContribution]

\* helpers.instantiate: classes are replaced by instances, in place order.
Instantiate(seq) ==
    [i \in 1..Len(seq) |-> IF seq[i].cls THEN [seq[i] EXCEPT !.cls = FALSE] ELSE seq[i]]

\* isinstance(view, <view_class>) for the three view_class values in use.
IsTemplateResponseMixin(view) == view.kind \in {"tmpl", "ctmpl", "detail", "list"}
IsSingleObjectMixin(view) == view.kind = "detail"
IsMultipleObjectMixin(view) == view.kind = "list"

\* The fields of tests/models.py ConditionalGetModel that hold a datetime.
ModelFields == {"modified", "alternative_modified"}

Ok(v) == [exc |-> "none", val |-> v]
Raise(e) == [exc |-> e, val |-> None]

\* TemplateLastModified.value: the template file's mtime in the local zone.
TemplateLastModifiedValue(tm) == Some(LocalDt(tm.mtime))

MaxOfRows(rws) ==
    LET vals == SelectSeq(rws, IsSome)
    IN IF vals = << >> THEN None
       ELSE Some(MaxDt([i \in 1..Len(vals) |-> vals[i][1]]))

QueryFirstAscending(rws, nf) ==
    LET vals == SelectSeq(rws, IsSome)
    IN IF vals = << >> THEN None
       ELSE Some(CHOOSE d \in {vals[i][1] : i \in 1..Len(vals)} :
                    \A j \in 1..Len(vals) : Utc(d) <= Utc(vals[j][1]))

\* QuerySetLastModified.value, lines 59-61:
\* order_by('-' + field).values_list(field, flat=True).first().  A row is
\* the value of the field in it.  Where NULLs sort in descending order is
\* the database's choice: first (nf, as PostgreSQL and Oracle do) or last
\* (as SQLite and MySQL do).
QueryFirstDescending(rws, nf) ==
    IF rws = << >> THEN None
    ELSE IF nf /\ \E i \in 1..Len(rws) : rws[i] = None THEN None
    ELSE MaxOfRows(rws)

\* BaseElement.__call__ and the value() of the last-modified elements.
CallLastModifiedElement(el, view, tm, rws, nf) ==
    IF el.e = "lambda" THEN Ok(el.v)
    ELSE IF el.e = "TemplateLastModified" THEN
        IF ~IsTemplateResponseMixin(view) THEN Raise("ValueError")
        ELSE Ok(TemplateLastModifiedValue(tm))
    ELSE IF el.e = "ObjectLastModified" THEN
        IF ~IsSingleObjectMixin(view) THEN Raise("ValueError")
        ELSE IF rws = << >> THEN Raise("Http404")
        ELSE IF el.f \notin ModelFields THEN Raise("ImproperlyConfigured")
        ELSE Ok(rws[1])
    ELSE
        IF ~IsMultipleObjectMixin(view) THEN Raise("ValueError")
        ELSE IF el.f \notin ModelFields THEN Raise("ImproperlyConfigured")
        ELSE Ok(QueryFirstDescending(rws, nf))

FirstRaisingSwallowed(outs) == 0

\* The index of the first element whose call raises, 0 when none does.
FirstRaising(outs) ==
    IF \E i \in 1..Len(outs) : outs[i].exc # "none"
    THEN CHOOSE i \in 1..Len(outs) :
            /\ outs[i].exc # "none"
            /\ \A j \in 1..(i - 1) : outs[j].exc = "none"
    ELSE 0

\* ConditionalGetMixin.get_last_modified over the element list `elements`:
\* [exc, val, calls], calls being the number of elements invoked.
BaseGetLastModified(elements, view, tm, rws, nf) ==
    IF elements = << >> THEN [exc |-> "none", val |-> None, calls |-> 0]
    ELSE LET insts == Instantiate(elements)
             outs == [i \in 1..Len(insts) |->
                         CallLastModifiedElement(insts[i], view, tm, rws, nf)]
             bad == FirstRaising(outs)
         IN IF bad # 0
            THEN [exc |-> outs[bad].exc, val |-> None, calls |-> bad]
            ELSE [exc |-> "none",
                  val |-> AggregateLastModified([i \in 1..Len(outs) |-> outs[i].val]),
                  calls |-> Len(outs)]

MixinElementsTemplateOnly(view) ==
    IF view.kind \in {"detail", "list"} THEN <<TemplateLastModified>> ELSE << >>

\* The elements ConditionalGetDetailViewMixin / ConditionalGetListViewMixin
\* append in get_last_modified.
MixinElements(view) ==
    IF view.kind = "detail"
    THEN <<TemplateLastModified, ObjectLastModified(view.field)>>
    ELSE IF view.kind = "list"
    THEN <<TemplateLastModified, QuerySetLastModified(view.field)>>
    ELSE << >>

\* self.last_modified_elements once get_last_modified of the view ran, the
\* class-level list being classLM.
SelfElements(view, classLM) == classLM \o MixinElements(view)

\* The class-level list afterwards: `self.last_modified_elements or []` is
\* the class's own list object when that is non-empty, and extend() then
\* grows it in place.
ClassElementsAfter(view, classLM) ==
    IF classLM # << >> THEN classLM \o MixinElements(view) ELSE classLM

\* get_last_modified of the view class: [exc, val, calls, classLM].
\* The Detail mixin first fetches the object (super().get_object()), which
\* raises Http404 when there is none.
GetLastModified(view, classLM, tm, rws, nf) ==
    IF view.kind = "detail" /\ rws = << >>
    THEN [exc |-> "Http404", val |-> None, calls |-> 0, classLM |-> classLM]
    ELSE LET r == BaseGetLastModified(SelfElements(view, classLM), view, tm, rws, nf)
         IN [exc |-> r.exc, val |-> r.val, calls |-> r.calls,
             classLM |-> ClassElementsAfter(view, classLM)]

\* ObjectLastModified.value, line 38: obj = view.get_object() - the element
\* looks the object up itself.
ElementLookups(el, v) ==
    IF el.e = "ObjectLastModified" /\ IsSingleObjectMixin(v)
    THEN <<"get_object">> ELSE << >>

\* The calls of the first n elements, each with the lookup it makes.
RECURSIVE ElementCalls(_, _, _)
ElementCalls(insts, v, n) ==
    IF n = 0 THEN << >>
    ELSE ElementCalls(insts, v, n - 1) \o <<"lm_element">> \o ElementLookups(insts[n], v)

\* What get_last_modified of the view class does, in order: the Detail mixin
\* looks the object up (line 253: self.object = super().get_object()), then
\* the elements are called.
LastModifiedCalls(v, clsLM, n) ==
    (IF v.kind = "detail" THEN <<"get_object">> ELSE << >>)
    \o ElementCalls(Instantiate(SelfElements(v, clsLM)), v, n)

\* The lookup the wrapped handler makes: BaseDetailView.get calls
\* self.get_object(), which the mixin does not override.
HandlerLookups(v) == IF v.kind = "detail" THEN <<"get_object">> ELSE << >>

\* The value() of the etag elements behind BaseElement.__call__;
\* RenderedContentEtag returns response.content.
CallEtagElement(el, view, response) ==
    IF el.e = "lambda" THEN [exc |-> "none", val |-> el.c]
    ELSE IF ~IsTemplateResponseMixin(view) THEN [exc |-> "ValueError", val |-> NoContribution]
    ELSE [exc |-> "none", val |-> BytesC(response.content)]

EtagOver(elements, view, response) ==
    LET insts == Instantiate(elements)
        outs == [i \in 1..Len(insts) |-> CallEtagElement(insts[i], view, response)]
        bad == FirstRaising(outs)
    IN IF bad # 0 THEN [exc |-> outs[bad].exc, val |-> None, calls |-> bad]
       ELSE [exc |-> "none",
             val |-> RenderEtagElements([i \in 1..Len(outs) |-> outs[i].val]),
             calls |-> Len(outs)]

\* ConditionalGetMixin.get_pre_render_etag
GetPreRenderEtag(view) ==
    IF view.preElems = << >> THEN [exc |-> "none", val |-> None, calls |-> 0]
    ELSE EtagOver(view.preElems, view, NoResponse)

\* ConditionalGetMixin.get_post_render_etag on a response that is rendered
\* already (its own response.render() then does nothing).
GetPostRenderEtag(view, response) ==
    IF view.postElems = << >> THEN [exc |-> "none", val |-> None, calls |-> 0]
    ELSE IF ~response.hasRender THEN [exc |-> "none", val |-> None, calls |-> 0]
    ELSE EtagOver(view.postElems, view, response)

(***************************************************************************)
(* The domains the model draws from.                                       *)
(***************************************************************************)
Ticks == 0 .. ((MaxSec + 1) * Sub - 1)
Secs == 1 .. MaxSec
\* Template files: an empty one and one that renders to "T".
Contents == {<< >>, <<84>>}
Templates == [mtime : Ticks, content : Contents]
NoTemplate == [mtime |-> 0, content |-> << >>]
\* A row: the value of the last-modified field in it, NULL or a UTC datetime
\* on a whole second (template mtimes carry the sub-second instants).
RowValues == {None} \cup {Some(UtcDt(s * Sub)) : s \in 0..MaxSec}
SeqsUpTo(n, S) == UNION {[1..k -> S] : k \in 0..n}
\* The table of a list view is kept as the bag of its rows in ascending
\* order of the field, NULLs first: the queries of the code sort the rows
\* themselves, so the order rows are stored in does not reach it.
RowKey(v) == IF v = None THEN 0 ELSE Utc(v[1]) + 1
Ascending(rws) == \A i \in 1..(Len(rws) - 1) : RowKey(rws[i]) <= RowKey(rws[i + 1])
Tables(n) == {rws \in SeqsUpTo(n, RowValues) : Ascending(rws)}
InsertAscending(rws, v) ==
    LET k == Cardinality({i \in 1..Len(rws) : RowKey(rws[i]) <= RowKey(v)})
    IN SubSeq(rws, 1, k) \o <<v>> \o SubSeq(rws, k + 1, Len(rws))

\* The etags a client may hold: the digests of the two template bodies.
ClientEtags == {QuoteEtag(Md5Hex(c)) : c \in Contents}
EtagHeaders == {<< >>, <<Star>>} \cup {<<e>> : e \in ClientEtags}
DateHeaders == {None} \cup {Some(HttpDate(s)) : s \in Secs}
AllRequests ==
    [if_match : EtagHeaders, if_none_match : EtagHeaders,
     ims : DateHeaders, ius : DateHeaders]
Present(h) == IF h = << >> THEN 0 ELSE 1
HeaderCount(r) ==
    Present(r.if_match) + Present(r.if_none_match) + Present(r.ims) + Present(r.ius)
Requests == {r \in AllRequests : HeaderCount(r) <= MaxHeaders}
Unconditional ==
    [if_match |-> << >>, if_none_match |-> << >>, ims |-> None, ius |-> None]
\* The list view is driven by unconditional requests, the detail view by
\* those and by requests with an If-Modified-Since header alone.
RequestsFor(v) ==
    IF v.kind = "list" THEN {Unconditional}
    ELSE IF v.kind = "detail"
    THEN {r \in AllRequests : HeaderCount(r) = Present(r.ims)}
    ELSE Requests

ViewClass(kind, lmDeclared, preElems, postElems, field, streaming) ==
    [kind |-> kind, lmDeclared |-> lmDeclared, preElems |-> preElems,
     postElems |-> postElems, field |-> field, streaming |-> streaming]

\* A user-supplied last-modified callable and etag callable.
UserLm == LmLambda(Some(LocalDt(MaxSec * Sub - 1)))
UserEtag == EtagLambda(StrC(<<84>>))

ViewClasses ==
    { ViewClass("base", << >>, << >>, << >>, "", FALSE),
      ViewClass("base", <<UserLm>>, <<UserEtag>>, <<UserEtag>>, "", FALSE),
      ViewClass("tmpl", << >>, << >>, <<UserEtag>>, "", FALSE),
      ViewClass("tmpl", <<UserLm>>, <<UserEtag>>, <<RenderedContentEtag>>, "", FALSE),
      \* ConditionalGetTemplateViewMixin, lines 234-235
      ViewClass("ctmpl", <<TemplateLastModified>>, << >>, <<RenderedContentEtag>>, "", FALSE),
      ViewClass("ctmpl", <<TemplateLastModified>>, << >>, <<RenderedContentEtag>>, "", TRUE),
      \* ConditionalGetDetailViewMixin, lines 247-249
      ViewClass("detail", << >>, << >>, <<RenderedContentEtag>>, "modified", FALSE),
      ViewClass("detail", <<UserLm>>, << >>, <<RenderedContentEtag>>, "modified", FALSE),
      ViewClass("detail", << >>, << >>, <<RenderedContentEtag>>, "invalid_field", FALSE),
      \* ConditionalGetListViewMixin, lines 269-270
      ViewClass("list", << >>, << >>, <<RenderedContentEtag>>, "modified", FALSE),
      ViewClass("list", << >>, << >>, <<RenderedContentEtag>>, "invalid_field", FALSE) }

(***************************************************************************)
(* The state.                                                              *)
(***************************************************************************)
VARIABLES
    view,        \* the view class serving the requests
    classLM,     \* the class attribute last_modified_elements of that class
    tmpl,        \* the template file: [mtime, content]
    rows,        \* the model's table
    nullsFirst,  \* whether the database sorts NULLs first in descending order
    pc,          \* where the dispatch in progress stands
    req,         \* the request being dispatched
    lmRaw,       \* what get_last_modified returned
    lm,          \* dispatch's last_modified (epoch seconds)
    etagRaw,     \* what get_pre_render_etag / get_post_render_etag returned
    etag,        \* dispatch's etag, then the callback's
    cond,        \* the conditional response the evaluator produced, if any
    resp,        \* the response the wrapped handler built
    ret,         \* what dispatch returned: "none", "cond" or "resp"
    out,         \* what response.render() returned: "none", "cond" or "resp"
    exc,         \* the exception dispatch raised, "none" if none
    log,         \* the calls made for the request, in order
    prev,        \* the Last-Modified header the previous request for the list was answered with
    elem         \* the element called directly, outside a dispatch, and its result

vars == <<view, classLM, tmpl, rows, nullsFirst, pc, req, lmRaw, lm, etagRaw,
          etag, cond, resp, ret, out, exc, log, prev, elem>>

envVars == <<view, tmpl, rows, nullsFirst>>
Replicate(n, x) == [i \in 1..n |-> x]
Count(s, x) == Cardinality({i \in DOMAIN s : s[i] = x})
NoPrev == [seen |-> FALSE, lm |-> None]
NoCall == [el |-> "none", val |-> None]

\* A fresh view instance before as_view()(request) is called.
Idle ==
    /\ pc = "idle"
    /\ req = Unconditional
    /\ lmRaw = None /\ lm = None /\ etagRaw = None /\ etag = None
    /\ cond = NoResponse /\ resp = NoResponse
    /\ ret = "none" /\ out = "none" /\ exc = "none"
    /\ log = << >>
    /\ elem = NoCall

\* Whether the view ever reads the table: the detail view fetches its object
\* first, the list view configured with a field the model lacks raises before
\* it queries.
QueriesTable(v) ==
    \/ v.kind = "detail"
    \/ v.kind = "list" /\ v.field \in ModelFields

InitEnv ==
    /\ view \in ViewClasses
    /\ classLM = view.lmDeclared
    /\ tmpl \in IF IsTemplateResponseMixin(view) THEN Templates ELSE {NoTemplate}
    /\ rows \in IF ~QueriesTable(view) THEN {<< >>}
                ELSE IF view.kind = "list" THEN Tables(MaxRows)
                ELSE SeqsUpTo(1, RowValues)
    /\ nullsFirst \in IF view.kind = "list" THEN BOOLEAN ELSE {FALSE}

Init == InitEnv /\ Idle /\ prev = NoPrev

(***************************************************************************)
(* ConditionalGetMixin.dispatch, step by step, and the post-render         *)
(* callback.                                                               *)
(***************************************************************************)
ShortCircuitsNever(c) == FALSE

\* `if conditional_response:` - a response object is truthy, None is not.
ShortCircuits(c) == c.status # 0

\* Whether one more dispatch is followed: a shared class-level list grows
\* with every dispatch and is followed MaxShared times.
MayDispatch ==
    \/ ClassElementsAfter(view, classLM) = classLM
    \/ Len(classLM) < Len(view.lmDeclared) + 2 * MaxShared

\* Line 149: last_modified = self._prep_last_modified(self.get_last_modified())
GetLastModifiedStep ==
    /\ pc = "idle"
    /\ MayDispatch
    /\ \E r \in RequestsFor(view) :
        LET g == GetLastModified(view, classLM, tmpl, rows, nullsFirst)
        IN /\ req' = r
           /\ classLM' = g.classLM
           /\ log' = <<"get_last_modified">> \o LastModifiedCalls(view, classLM, g.calls)
           /\ IF g.exc # "none"
              THEN /\ pc' = "raised"
                   /\ exc' = g.exc
                   /\ UNCHANGED <<lmRaw, lm>>
              ELSE /\ pc' = "lm"
                   /\ lmRaw' = g.val
                   /\ lm' = PrepLastModified(g.val)
                   /\ UNCHANGED exc
    /\ UNCHANGED <<elem, envVars, etagRaw, etag, cond, resp, ret, out, prev>>

\* Line 152: etag = self._prep_etag(self.get_pre_render_etag())
GetPreRenderEtagStep ==
    /\ pc = "lm"
    /\ LET g == GetPreRenderEtag(view)
       IN /\ log' = log \o <<"get_pre_render_etag">> \o Replicate(g.calls, "pre_element")
          /\ IF g.exc # "none"
             THEN /\ pc' = "raised"
                  /\ exc' = g.exc
                  /\ UNCHANGED <<etagRaw, etag>>
             ELSE /\ pc' = "etag"
                  /\ etagRaw' = g.val
                  /\ etag' = PrepEtag(g.val)
                  /\ UNCHANGED exc
    /\ UNCHANGED <<elem, envVars, classLM, req, lmRaw, lm, cond, resp, ret, out, prev>>

\* Lines 157-159: the pre-render check.
PreRenderCheck ==
    /\ pc = "etag"
    /\ LET c == GetConditionalResponse(req, etag, lm)
       IN /\ log' = log \o <<"evaluate">>
          /\ IF ShortCircuits(c)
             THEN /\ cond' = c
                  /\ ret' = "cond"
                  /\ pc' = "returned"
             ELSE /\ pc' = "proceed"
                  /\ UNCHANGED <<cond, ret>>
    /\ UNCHANGED <<elem, envVars, classLM, req, lmRaw, lm, etagRaw, etag, resp, out, exc, prev>>

HandlerResponseRendered(v) ==
    [Response(200, IsTemplateResponseMixin(v), v.streaming) EXCEPT !.rendered = TRUE]

\* The response the wrapped handler (super().dispatch) builds: an
\* HttpResponse for the plain view, a TemplateResponse for the others.
HandlerResponse(v) ==
    IF IsTemplateResponseMixin(v) THEN Response(200, TRUE, v.streaming)
    ELSE Response(200, FALSE, FALSE)

AddPostRenderCallbackAlways(response) == [response EXCEPT !.callbacks = @ + 1]

\* Lines 166-169: the callback is registered on a response that has
\* add_post_render_callback.
AddPostRenderCallback(response) ==
    IF response.hasRender THEN [response EXCEPT !.callbacks = @ + 1] ELSE response

SuperDispatchTwice ==
    /\ pc = "proceed"
    /\ resp' = AddPostRenderCallback(SetResponseHeaders(HandlerResponse(view), etag, lm))
    /\ ret' = "resp"
    /\ pc' = "returned"
    /\ log' = log \o <<"super_dispatch", "super_dispatch">>
    /\ UNCHANGED <<elem, envVars, classLM, req, lmRaw, lm, etagRaw, etag, cond, out, exc, prev>>

\* Lines 162-171: the wrapped handler, the headers known so far, the
\* post-render callback, and the return.
SuperDispatch ==
    /\ pc = "proceed"
    /\ resp' = AddPostRenderCallback(SetResponseHeaders(HandlerResponse(view), etag, lm))
    /\ ret' = "resp"
    /\ pc' = "returned"
    /\ log' = log \o <<"super_dispatch">> \o HandlerLookups(view)
    /\ UNCHANGED <<elem, envVars, classLM, req, lmRaw, lm, etagRaw, etag, cond, out, exc, prev>>

\* The last_modified the callback works with: the value bound into the
\* partial at line 168, not one computed afresh from the data at render time.
CallbackLastModifiedFresh(bound, fresh) == fresh
CallbackLastModified(bound, fresh) == bound

DerivesEtagAlways(response) == TRUE

\* Lines 175-177: `if not etag and not response.streaming:` - the post-render
\* ETag is asked for only when the response has no ETag header and is not
\* a streaming one.
DerivesEtag(response) == response.etag = << >> /\ ~response.streaming

\* ConditionalGetMixin._post_render_callback(request, last_modified, response)
\* on the response render() just rendered.
PostRenderCallback(v, request, last_modified, response) ==
    LET etag0 == response.etag
        derive == DerivesEtag(response)
        g == IF derive THEN GetPostRenderEtag(v, response)
             ELSE [exc |-> "none", val |-> None, calls |-> 0]
        e == IF derive THEN FormatEtag(g.val) ELSE etag0
        c == GetConditionalResponse(request, e, last_modified)
    IN [exc |-> g.exc,
        derived |-> derive,
        calls |-> g.calls,
        etagRaw |-> g.val,
        etag |-> e,
        cond |-> c,
        resp |-> IF g.exc = "none" /\ ~ShortCircuits(c)
                 THEN SetResponseHeaders(response, e, last_modified)
                 ELSE response]

RunsCallbacksAlways(response) == TRUE

\* SimpleTemplateResponse.render(): the body is rendered and the callbacks
\* run only `if not self._is_rendered`; setting the content marks the
\* response rendered before the callbacks are called.
RunsCallbacks(response) == ~response.rendered

\* Lines 91-97: get_post_render_etag calls response.render() itself, from
\* inside the callback, when there are elements and the response can render.
PostRenderEtagRenders(v, response) == v.postElems # << >> /\ response.hasRender

\* What that inner render() call does on the response being rendered: it
\* returns at once, or (were the callbacks run again) re-enters the callback.
InnerRender(response) ==
    IF RunsCallbacks(response) THEN <<"inner_render", "inner_callback">>
    ELSE <<"inner_render">>

\* SimpleTemplateResponse.rendered_content: the body the template renders to.
RenderedContent(tm) == tm.content

\* The render() calls a response of the view gets: the list view's response
\* is rendered by the request handler alone, the others may be rendered again.
RenderCallsFor(v) == IF v.kind = "list" THEN 1 ELSE MaxRenders

\* The caller (Django's request handler, or a test) calls render() on the
\* template response dispatch returned: the body is rendered and the
\* registered callback runs; render() returns what the callback returned.
\* A render() call on a response that is rendered already changes nothing.
Render ==
    /\ pc \in {"returned", "rendered"}
    /\ ret = "resp"
    /\ resp.hasRender
    /\ Count(log, "render") + Count(log, "render_noop") < RenderCallsFor(view)
    /\ IF RunsCallbacks(resp)
       THEN LET rendered == [resp EXCEPT !.content = RenderedContent(tmpl),
                                         !.rendered = TRUE]
                fresh == PrepLastModified(
                             GetLastModified(view, classLM, tmpl, rows, nullsFirst).val)
                cb == PostRenderCallback(view, req, CallbackLastModified(lm, fresh),
                                         rendered)
            IN /\ log' = log \o <<"render">>
                             \o (IF cb.derived
                                 THEN <<"get_post_render_etag">>
                                         \o (IF PostRenderEtagRenders(view, rendered)
                                             THEN InnerRender(rendered) ELSE << >>)
                                         \o Replicate(cb.calls, "post_element")
                                 ELSE << >>)
                             \o (IF cb.exc = "none" THEN <<"evaluate">> ELSE << >>)
               /\ resp' = cb.resp
               /\ IF cb.exc # "none"
                  THEN /\ pc' = "raised"
                       /\ exc' = cb.exc
                       /\ UNCHANGED <<etagRaw, etag, cond, out>>
                  ELSE /\ pc' = "rendered"
                       /\ etagRaw' = cb.etagRaw
                       /\ etag' = cb.etag
                       /\ cond' = cb.cond
                       /\ out' = IF ShortCircuits(cb.cond) THEN "cond" ELSE "resp"
                       /\ UNCHANGED exc
       ELSE /\ log' = log \o <<"render_noop">>
            /\ UNCHANGED <<pc, resp, etagRaw, etag, cond, out, exc>>
    /\ UNCHANGED <<elem, envVars, classLM, req, lmRaw, lm, ret, prev>>

\* The response the client is answered with.
Delivered ==
    IF out = "cond" \/ (out = "none" /\ ret = "cond") THEN cond ELSE resp

\* The request is over; the next one gets a new view instance.
Finish ==
    /\ pc \in {"returned", "rendered", "raised"}
    /\ prev' = IF pc = "raised" \/ view.kind # "list" THEN prev
               ELSE [seen |-> TRUE, lm |-> Delivered.lm]
    /\ pc' = "idle"
    /\ req' = Unconditional
    /\ lmRaw' = None /\ lm' = None /\ etagRaw' = None /\ etag' = None
    /\ cond' = NoResponse /\ resp' = NoResponse
    /\ ret' = "none" /\ out' = "none" /\ exc' = "none"
    /\ log' = << >>
    /\ UNCHANGED <<elem, envVars, classLM>>

(***************************************************************************)
(* The environment: the template file is rewritten, a row is inserted.     *)
(***************************************************************************)
WriteTemplate ==
    /\ pc \in {"idle", "returned", "called"}
    /\ IsTemplateResponseMixin(view)
    /\ \E t \in Ticks, c \in Contents :
        /\ t > tmpl.mtime
        /\ tmpl' = [mtime |-> t, content |-> c]
    /\ UNCHANGED <<elem, view, rows, nullsFirst, classLM, pc, req, lmRaw, lm, etagRaw,
                   etag, cond, resp, ret, out, exc, log, prev>>

InsertRow ==
    /\ pc = "idle"
    /\ view.kind = "list"
    /\ QueriesTable(view)
    /\ Len(rows) < MaxRows
    /\ \E v \in RowValues : rows' = InsertAscending(rows, v)
    /\ UNCHANGED <<elem, view, tmpl, nullsFirst, classLM, pc, req, lmRaw, lm, etagRaw,
                   etag, cond, resp, ret, out, exc, log, prev>>

Next ==
    \/ GetLastModifiedStep
    \/ GetPreRenderEtagStep
    \/ PreRenderCheck
    \/ SuperDispatch
    \/ Render
    \/ Finish
    \/ WriteTemplate
    \/ InsertRow

Spec == Init /\ [][Next]_vars

(***************************************************************************)
(* The aggregators called directly, as tests/test_views.py does: a view    *)
(* class is given one list of plain callables and get_last_modified,       *)
(* get_pre_render_etag or get_post_render_etag is called on an instance.   *)
(***************************************************************************)
\* What a last-modified callable may return: nothing, or an aware datetime
\* in UTC or in the local zone.
AggInstants == 0 .. MaxElems
AggLmValues ==
    {None} \cup {Some(UtcDt(t)) : t \in AggInstants}
           \cup {Some(LocalDt(t)) : t \in AggInstants}
\* What an etag callable may return: nothing, a str or bytes.
AggContributions ==
    { NoContribution, StrC(<< >>), StrC(<<84>>), StrC(<<84, 84>>), StrC(<<233>>),
      BytesC(<< >>), BytesC(<<84>>), BytesC(<<195, 169>>) }
AggLmLists ==
    {[i \in DOMAIN vs |-> LmLambda(vs[i])] : vs \in SeqsUpTo(MaxElems, AggLmValues)}
AggEtagLists ==
    {[i \in DOMAIN cs |-> EtagLambda(cs[i])] : cs \in SeqsUpTo(MaxElems, AggContributions)}
AggViewClasses ==
    {ViewClass("tmpl", l, << >>, << >>, "", FALSE) : l \in AggLmLists}
    \cup {ViewClass("tmpl", << >>, l, << >>, "", FALSE) : l \in AggEtagLists}
    \cup {ViewClass("tmpl", << >>, << >>, l, "", FALSE) : l \in AggEtagLists}

InitAgg ==
    /\ view \in AggViewClasses
    /\ classLM = view.lmDeclared
    /\ tmpl = [mtime |-> 0, content |-> <<84>>]
    /\ rows = << >>
    /\ nullsFirst = FALSE
    /\ Idle
    /\ prev = NoPrev

\* view.get_last_modified()
CallGetLastModified ==
    /\ pc = "idle"
    /\ LET g == GetLastModified(view, classLM, tmpl, rows, nullsFirst)
       IN /\ lmRaw' = g.val
          /\ classLM' = g.classLM
          /\ log' = <<"get_last_modified">> \o Replicate(g.calls, "lm_element")
    /\ pc' = "called"
    /\ UNCHANGED <<elem, envVars, req, lm, etagRaw, etag, cond, resp, ret, out, exc, prev>>

\* view.get_pre_render_etag()
CallGetPreRenderEtag ==
    /\ pc = "idle"
    /\ LET g == GetPreRenderEtag(view)
       IN /\ etagRaw' = g.val
          /\ log' = <<"get_pre_render_etag">> \o Replicate(g.calls, "pre_element")
    /\ pc' = "called"
    /\ UNCHANGED <<elem, envVars, classLM, req, lmRaw, lm, etag, cond, resp, ret, out, exc, prev>>

\* view.get_post_render_etag(response) on the template response of the view,
\* which the call renders.
CallGetPostRenderEtag ==
    /\ pc = "idle"
    /\ LET response == [HandlerResponse(view) EXCEPT
                           !.content = RenderedContent(tmpl), !.rendered = TRUE]
           g == GetPostRenderEtag(view, response)
       IN /\ etagRaw' = g.val
          /\ resp' = response
          /\ log' = <<"get_post_render_etag">> \o Replicate(g.calls, "post_element")
    /\ pc' = "called"
    /\ UNCHANGED <<elem, envVars, classLM, req, lmRaw, lm, etag, cond, ret, out, exc, prev>>

\* The call returned; the next one is made on a new instance.
Return ==
    /\ pc = "called"
    /\ pc' = "idle"
    /\ lmRaw' = None /\ etagRaw' = None
    /\ resp' = NoResponse
    /\ log' = << >>
    /\ UNCHANGED <<elem, envVars, classLM, req, lm, etag, cond, ret, out, exc, prev>>

NextAgg ==
    \/ CallGetLastModified
    \/ CallGetPreRenderEtag
    \/ CallGetPostRenderEtag
    \/ Return

SpecAgg == InitAgg /\ [][NextAgg]_vars

(***************************************************************************)
(* The elements called directly, as tests/test_elements.py does: an        *)
(* element instance is called with a view instance (and, for an etag       *)
(* element, a response).  The log holds "call" for every call and the      *)
(* effects of value(): "stat" of the template file, "get_object",          *)
(* "query" on the queryset and "render" of the response.                   *)
(***************************************************************************)
\* isinstance(view, self.view_class) for the view_class of the element.
IsInstanceOfViewClass(v, el) ==
    IF el.e = "ObjectLastModified" THEN IsSingleObjectMixin(v)
    ELSE IF el.e = "QuerySetLastModified" THEN IsMultipleObjectMixin(v)
    ELSE IsTemplateResponseMixin(v)

\* What value() of a last-modified element does before it returns or raises.
LastModifiedValueEffects(el) ==
    IF el.e = "TemplateLastModified" THEN <<"stat">>
    ELSE IF el.e = "ObjectLastModified" THEN <<"get_object">>
    ELSE IF el.f \in ModelFields THEN <<"query">>
    ELSE << >>

RenderedContentEtagValueRerendering(response, tm) ==
    LET r == [response EXCEPT !.content = RenderedContent(tm), !.rendered = TRUE]
    IN [response |-> r, val |-> r.content, effects |-> <<"render">>]

\* RenderedContentEtag.value: the response is rendered unless it is already,
\* and its content is returned.
RenderedContentEtagValue(response, tm) ==
    LET r == IF response.rendered THEN response
             ELSE [response EXCEPT !.content = RenderedContent(tm), !.rendered = TRUE]
    IN [response |-> r,
        val |-> r.content,
        effects |-> IF response.rendered THEN << >> ELSE <<"render">>]

CallEffectsUnchecked(v, el, effects) == effects

\* BaseElement.__call__: value() runs only for a view of the element's
\* view_class.
CallEffects(v, el, effects) ==
    IF IsInstanceOfViewClass(v, el) THEN effects ELSE << >>

CallElementFields == ModelFields \cup {"invalid_field"}
CallLmElements ==
    {[TemplateLastModified EXCEPT !.cls = FALSE]}
    \cup {ObjectLastModified(f) : f \in CallElementFields}
    \cup {QuerySetLastModified(f) : f \in CallElementFields}
\* View, TemplateView, DetailView and ListView instances.
CallViews ==
    {ViewClass(k, << >>, << >>, << >>, "modified", FALSE) :
        k \in {"base", "tmpl", "detail", "list"}}
\* The template response the etag element is handed: not rendered yet, or
\* rendered earlier to some body.
CallResponses ==
    {Response(200, TRUE, FALSE)}
    \cup {[Response(200, TRUE, FALSE) EXCEPT !.rendered = TRUE, !.content = c] :
             c \in Contents}

InitCall ==
    /\ view \in CallViews
    /\ classLM = << >>
    /\ tmpl \in IF IsTemplateResponseMixin(view) THEN Templates ELSE {NoTemplate}
    /\ rows \in IF view.kind = "list" THEN Tables(MaxRows)
                ELSE IF view.kind = "detail" THEN SeqsUpTo(1, RowValues)
                ELSE {<< >>}
    /\ nullsFirst \in IF view.kind = "list" THEN BOOLEAN ELSE {FALSE}
    /\ Idle
    /\ prev = NoPrev

\* element(view) for a last-modified element.
CallLmElement ==
    /\ pc = "idle"
    /\ \E el \in CallLmElements :
        LET r == CallLastModifiedElement(el, view, tmpl, rows, nullsFirst)
        IN /\ elem' = [el |-> el, val |-> r.val]
           /\ exc' = r.exc
           /\ log' = <<"call">> \o CallEffects(view, el, LastModifiedValueEffects(el))
    /\ pc' = "called"
    /\ UNCHANGED <<envVars, classLM, req, lmRaw, lm, etagRaw, etag, cond, resp, ret,
                   out, prev>>

\* RenderedContentEtag()(view, response), on a new response or once more on
\* the response of the call before.
CallRenderedContentEtag ==
    /\ \/ pc = "idle"
       \/ pc = "called" /\ elem.el = RenderedContentEtag /\ Count(log, "call") < 2
    /\ \E response \in IF pc = "idle" THEN CallResponses ELSE {resp} :
        LET ok == IsInstanceOfViewClass(view, RenderedContentEtag)
            r == RenderedContentEtagValue(response, tmpl)
        IN /\ elem' = [el |-> RenderedContentEtag,
                       val |-> IF ok THEN Some(r.val) ELSE None]
           /\ exc' = IF ok THEN "none" ELSE "ValueError"
           /\ resp' = IF ok THEN r.response ELSE response
           /\ log' = log \o <<"call">> \o CallEffects(view, RenderedContentEtag, r.effects)
    /\ pc' = "called"
    /\ UNCHANGED <<envVars, classLM, req, lmRaw, lm, etagRaw, etag, cond, ret, out, prev>>

\* view.get_last_modified() on an instance of the Detail or List mixin, for
\* the first time or once more on the same instance and the same data:
\* self.last_modified_elements is by then the list the call before left.
CallViewGetLastModified ==
    /\ view.kind \in {"detail", "list"}
    /\ \/ pc = "idle"
       \/ pc = "got_last_modified" /\ Count(log, "get_last_modified") <= MaxShared
    /\ LET before == IF pc = "idle" THEN view.lmDeclared ELSE elem.val.elements
           g == GetLastModified(view, before, tmpl, rows, nullsFirst)
           res == [exc |-> g.exc, val |-> g.val]
       IN /\ elem' = [el |-> "get_last_modified",
                      val |-> [elements |-> IF g.exc = "Http404" THEN before
                                            ELSE SelfElements(view, before),
                               first |-> IF pc = "idle" THEN res ELSE elem.val.first,
                               res |-> res]]
          /\ exc' = g.exc
          /\ log' = log \o <<"get_last_modified">> \o LastModifiedCalls(view, before, g.calls)
    /\ pc' = "got_last_modified"
    /\ UNCHANGED <<envVars, classLM, req, lmRaw, lm, etagRaw, etag, cond, resp, ret,
                   out, prev>>

\* The test goes on to its next call.
ReturnCall ==
    /\ pc \in {"called", "got_last_modified"}
    /\ pc' = "idle"
    /\ resp' = NoResponse
    /\ exc' = "none"
    /\ log' = << >>
    /\ elem' = NoCall
    /\ UNCHANGED <<envVars, classLM, req, lmRaw, lm, etagRaw, etag, cond, ret, out, prev>>

NextCall ==
    \/ CallLmElement
    \/ CallRenderedContentEtag
    \/ CallViewGetLastModified
    \/ ReturnCall
    \/ WriteTemplate

SpecCall == InitCall /\ [][NextCall]_vars

(***************************************************************************)
(* The helpers called directly, as tests/test_views.py does:               *)
(* _prep_last_modified, _format_last_modified, _prep_etag and              *)
(* set_response_headers on an instance of the plain view.                  *)
(***************************************************************************)
FmtInstants == {UtcDt(t) : t \in Ticks} \cup {LocalDt(t) : t \in Ticks}
FmtLastModifiedArgs ==
    {None} \cup {NumArg(n) : n \in 0..MaxSec} \cup {DtArg(d) : d \in FmtInstants}
\* Nothing, a bare etag, a quoted one, a weak one.
FmtEtags == {None, <<84>>, WeakPrefix \o QuoteEtag(<<84>>)} \cup ClientEtags
\* The response base_view.as_view()(request) returns, with or without
\* headers set on it before.
FmtResponses ==
    {[Response(200, FALSE, FALSE) EXCEPT !.etag = e, !.lm = l] :
        e \in {None, QuoteEtag(<<84>>)}, l \in {None, Some(HttpDate(MaxSec))}}

\* ConditionalGetMixin.set_response_headers, lines 125-128, with any of the
\* last-modified values it accepts.
SetResponseHeadersArg(response, e, a) ==
    [response EXCEPT
        !.etag = IF e # << >> THEN FormatEtag(e) ELSE @,
        !.lm = IF TruthyArg(a) THEN FormatLastModifiedArg(a) ELSE @]

Called(fn, arg, res) == [el |-> fn, val |-> [arg |-> arg, res |-> res]]

InitFmt ==
    /\ view = ViewClass("base", << >>, << >>, << >>, "", FALSE)
    /\ classLM = << >>
    /\ tmpl = NoTemplate
    /\ rows = << >>
    /\ nullsFirst = FALSE
    /\ Idle
    /\ prev = NoPrev

\* view._prep_last_modified(d)
CallPrepLastModified ==
    /\ pc = "idle"
    /\ \E d \in {None} \cup {Some(x) : x \in FmtInstants} :
          elem' = Called("_prep_last_modified", d, PrepLastModified(d))
    /\ pc' = "formatted"
    /\ UNCHANGED <<envVars, classLM, req, lmRaw, lm, etagRaw, etag, cond, resp, ret,
                   out, exc, log, prev>>

\* view._format_last_modified(a)
CallFormatLastModified ==
    /\ pc = "idle"
    /\ \E a \in FmtLastModifiedArgs :
          elem' = Called("_format_last_modified", a, FormatLastModifiedArg(a))
    /\ pc' = "formatted"
    /\ UNCHANGED <<envVars, classLM, req, lmRaw, lm, etagRaw, etag, cond, resp, ret,
                   out, exc, log, prev>>

\* view._prep_etag(e), and once more on what it returned.
CallPrepEtag ==
    /\ pc = "idle"
    /\ \E e \in FmtEtags :
          elem' = Called("_prep_etag", e, <<PrepEtag(e), PrepEtag(PrepEtag(e))>>)
    /\ pc' = "formatted"
    /\ UNCHANGED <<envVars, classLM, req, lmRaw, lm, etagRaw, etag, cond, resp, ret,
                   out, exc, log, prev>>

\* view.set_response_headers(response, etag=e, last_modified=a)
CallSetResponseHeaders ==
    /\ pc = "idle"
    /\ \E response \in FmtResponses, e \in FmtEtags, a \in FmtLastModifiedArgs :
          /\ elem' = Called("set_response_headers",
                            [response |-> response, etag |-> e, last_modified |-> a],
                            SetResponseHeadersArg(response, e, a))
          /\ resp' = SetResponseHeadersArg(response, e, a)
    /\ pc' = "formatted"
    /\ UNCHANGED <<envVars, classLM, req, lmRaw, lm, etagRaw, etag, cond, ret,
                   out, exc, log, prev>>

\* The test goes on to its next call.
ReturnFmt ==
    /\ pc = "formatted"
    /\ pc' = "idle"
    /\ resp' = NoResponse
    /\ elem' = NoCall
    /\ UNCHANGED <<envVars, classLM, req, lmRaw, lm, etagRaw, etag, cond, ret,
                   out, exc, log, prev>>

NextFmt ==
    \/ CallPrepLastModified
    \/ CallFormatLastModified
    \/ CallPrepEtag
    \/ CallSetResponseHeaders
    \/ ReturnFmt

SpecFmt == InitFmt /\ [][NextFmt]_vars


TypeOK ==
    /\ pc \in {"idle", "lm", "etag", "proceed", "returned", "rendered", "raised",
              "called", "formatted", "got_last_modified"}
    /\ ret \in {"none", "cond", "resp"}
    /\ out \in {"none", "cond", "resp"}


(***************************************************************************)
(* What is observed of a request.                                          *)
(***************************************************************************)
\* The pre-render ETag of the view, raw and as dispatch hands it on.
PreRenderEtagRaw == GetPreRenderEtag(view).val
PreRenderEtag == PrepEtag(PreRenderEtagRaw)
\* The client has its answer: dispatch returned a response nobody renders
\* any further, or render() returned.
Answered ==
    \/ pc = "rendered"
    \/ pc = "returned" /\ (ret = "cond" \/ ~resp.hasRender)
\* The quoted ETag computed for the response, pre-render or post-render.
ComputedEtag ==
    IF PreRenderEtagRaw # None THEN QuoteEtag(PreRenderEtagRaw)
    ELSE IF pc = "rendered" /\ etagRaw # None THEN QuoteEtag(etagRaw)
    ELSE None
\* An If-Match or If-Unmodified-Since precondition of the request fails at
\* the pre-render check.
PreconditionFails ==
    \/ req.if_match # << >> /\ ~IfMatchPasses(PreRenderEtag, req.if_match)
    \/ /\ req.if_match = << >>
       /\ req.ius # None
       /\ ~IfUnmodifiedSincePasses(lm, ParseDateHeader(req.ius))
\* The epoch second of the instant get_last_modified returned.
LmSecond == Utc(lmRaw[1]) \div Sub
ImsAtOrAfter ==
    /\ req.ims # None
    /\ lmRaw # None
    /\ ParseHttpDate(req.ims[1]) >= LmSecond

(***************************************************************************)
(* C1: dispatch computes the last-modified value and the pre-render ETag   *)
(* and asks the evaluator before the wrapped handler runs; whenever that   *)
(* pre-render verdict is 304 or 412, dispatch returns that response at     *)
(* once: the handler is never invoked, no post-render ETag element is      *)
(* invoked and the evaluator is not asked a second time for the request.   *)
(***************************************************************************)
C1_PreRenderShortCircuit ==
    /\ \A i \in DOMAIN log :
          log[i] = "super_dispatch" =>
             \E a, b, c \in 1..(i - 1) :
                /\ a < b /\ b < c
                /\ log[a] = "get_last_modified"
                /\ log[b] = "get_pre_render_etag"
                /\ log[c] = "evaluate"
    /\ (/\ pc \in {"proceed", "returned", "rendered"}
        /\ Verdict(req, PreRenderEtag, lm) # "proceed")
       => /\ pc = "returned"
          /\ ret = "cond"
          /\ out = "none"
          /\ cond = ConditionalResponse(Verdict(req, PreRenderEtag, lm))
          /\ Delivered = cond
          /\ resp = NoResponse
          /\ Count(log, "super_dispatch") = 0
          /\ Count(log, "get_post_render_etag") = 0
          /\ Count(log, "post_element") = 0
          /\ Count(log, "evaluate") = 1

\* A view with a post-render ETag element answers 304 at the pre-render check.
C1_Witness ==
    /\ pc = "returned"
    /\ ret = "cond"
    /\ cond.status = 304
    /\ view.postElems # << >>
    /\ Count(log, "evaluate") = 1

(***************************************************************************)
(* C2: the post-render check asks the evaluator again with the             *)
(* last-modified value computed at the start of dispatch (the              *)
(* last-modified elements are not invoked again) and the newly computed    *)
(* ETag; on a 304 or 412 the caller receives that response in place of the *)
(* rendered one, otherwise the final ETag header is attached to the        *)
(* rendered response.                                                      *)
(***************************************************************************)
C2_PostRenderCheck ==
    pc = "rendered" =>
       LET newEtag == IF PreRenderEtag = None /\ ~view.streaming
                      THEN FormatEtag(GetPostRenderEtag(view, resp).val)
                      ELSE PreRenderEtag
           v == Verdict(req, newEtag, lm)
       IN /\ Count(log, "get_last_modified") = 1
          /\ \A i, j \in DOMAIN log :
                log[i] = "lm_element" /\ log[j] = "render" => i < j
          /\ Count(log, "evaluate") = 2
          /\ etag = newEtag
          /\ lm = PrepLastModified(lmRaw)
          /\ IF v # "proceed"
             THEN /\ out = "cond"
                  /\ Delivered = ConditionalResponse(v)
             ELSE /\ out = "resp"
                  /\ Delivered = resp
                  /\ resp.rendered
                  /\ resp.status = 200
                  /\ resp.etag = newEtag

\* The post-render check answers 304 on the ETag of the rendered body, for a
\* template rewritten since dispatch computed the last-modified value.
C2_Witness ==
    /\ pc = "rendered"
    /\ out = "cond"
    /\ cond.status = 304
    /\ PreRenderEtag = None
    /\ lmRaw # None
    /\ Utc(lmRaw[1]) < tmpl.mtime

SetMax(S) == CHOOSE m \in S : \A x \in S : x <= m
\* The instants of the rows whose field is not blank.
RowInstants == {Utc(rows[i][1]) : i \in {j \in DOMAIN rows : rows[j] # None}}
\* A detail or list view with the default configuration.
DefaultModelView ==
    /\ view.kind \in {"detail", "list"}
    /\ view.lmDeclared = << >>
    /\ view.field = "modified"
\* A template view whose ETag is the digest of the rendered body.
RenderedBodyEtagView ==
    /\ view.preElems = << >>
    /\ view.postElems = <<RenderedContentEtag>>
    /\ ~view.streaming

C6_AsStated ==
    /\ (pc = "lm" /\ DefaultModelView)
       => /\ lmRaw # None
          /\ Utc(lmRaw[1]) = SetMax({tmpl.mtime} \cup RowInstants)
    /\ (Answered /\ DefaultModelView /\ Delivered.status = 200 /\ lmRaw # None)
       => Delivered.lm = Some(HttpDate(LmSecond))

CalledLastModified == pc = "called" /\ log[1] = "get_last_modified"
CalledEtag ==
    pc = "called" /\ log[1] \in {"get_pre_render_etag", "get_post_render_etag"}
\* The element list the call went over.
CalledEtagElements ==
    IF log[1] = "get_pre_render_etag" THEN view.preElems ELSE view.postElems
\* A list rearranged by the permutation q of its indices.
Permute(seq, q) == [i \in DOMAIN seq |-> seq[q[i]]]
\* The bytes of one contribution and the concatenation over a list of them,
\* in list order.
ContributionBytes(c) ==
    IF c.t = "none" THEN << >> ELSE IF c.t = "str" THEN StrEncode(c.v) ELSE c.v
RECURSIVE ConcatContributions(_)
ConcatContributions(cs) ==
    IF cs = << >> THEN << >>
    ELSE ContributionBytes(Head(cs)) \o ConcatContributions(Tail(cs))
ContributionsOf(elements) == [i \in DOMAIN elements |-> elements[i].c]

(***************************************************************************)
(* C8: get_last_modified invokes every configured element, discards the    *)
(* ones that return nothing and returns the maximum of the remaining       *)
(* datetimes - the same instant for every permutation of the list - or     *)
(* nothing when no element is configured or every element returns nothing. *)
(***************************************************************************)
C8_LastModifiedAggregation ==
    CalledLastModified =>
       LET vals == [i \in DOMAIN view.lmDeclared |-> view.lmDeclared[i].v]
           kept == {i \in DOMAIN vals : vals[i] # None}
       IN /\ Count(log, "lm_element") = Len(vals)
          /\ IF kept = {} THEN lmRaw = None
             ELSE /\ lmRaw # None
                  /\ \E i \in kept : lmRaw = vals[i]
                  /\ Utc(lmRaw[1]) = SetMax({Utc(vals[i][1]) : i \in kept})
          /\ \A q \in Permutations(DOMAIN vals) :
                LET r == GetLastModified(
                             [view EXCEPT !.lmDeclared = Permute(view.lmDeclared, q)],
                             Permute(view.lmDeclared, q), tmpl, rows, nullsFirst).val
                IN /\ (r = None) = (lmRaw = None)
                   /\ r # None => Utc(r[1]) = Utc(lmRaw[1])

\* Three elements: one returns nothing, the greatest instant is not first.
C8_Witness ==
    /\ CalledLastModified
    /\ Len(view.lmDeclared) = 3
    /\ view.lmDeclared[1].v # None
    /\ view.lmDeclared[2].v = None
    /\ view.lmDeclared[3].v # None
    /\ Utc(view.lmDeclared[1].v[1]) < Utc(view.lmDeclared[3].v[1])
    /\ lmRaw = view.lmDeclared[3].v

C10_AsStated ==
    CalledEtag =>
       \A q \in Permutations(DOMAIN CalledEtagElements) :
          Permute(CalledEtagElements, q) # CalledEtagElements
             => EtagOver(Permute(CalledEtagElements, q), view, resp).val # etagRaw

(***************************************************************************)
(* C10 amended: the aggregated ETag depends on the order of the element    *)
(* list through the concatenation of the contributions: the same elements  *)
(* in an order that concatenates to different bytes give a different ETag, *)
(* in an order that concatenates to the same bytes the same ETag.          *)
(***************************************************************************)
C10_OrderSensitivity ==
    CalledEtag =>
       \A q \in Permutations(DOMAIN CalledEtagElements) :
          LET other == Permute(CalledEtagElements, q)
          IN (EtagOver(other, view, resp).val = etagRaw)
                = (ConcatContributions(ContributionsOf(other))
                      = ConcatContributions(ContributionsOf(CalledEtagElements)))

\* Two contributions whose exchange changes the concatenation and the ETag.
C10_Witness ==
    /\ CalledEtag
    /\ Len(CalledEtagElements) = 2
    /\ etagRaw # None
    /\ EtagOver(Permute(CalledEtagElements, <<2, 1>>), view, resp).val # etagRaw
    /\ EtagOver(Permute(CalledEtagElements, <<2, 1>>), view, resp).val # None


(***************************************************************************)
(* What is observed of a direct call of an element.                        *)
(***************************************************************************)
CalledElement(names) == pc = "called" /\ elem.el.e \in names

(***************************************************************************)
(* C11: ObjectLastModified and QuerySetLastModified raise                  *)
(* ImproperlyConfigured when the model has no attribute named by the       *)
(* configured field; when the field exists and its value is blank (or the  *)
(* collection is empty) they return nothing and raise no error; otherwise  *)
(* they return the field value - for the collection, the greatest value    *)
(* over all rows.                                                          *)
(***************************************************************************)
C11_AsStated ==
    (/\ CalledElement({"ObjectLastModified", "QuerySetLastModified"})
     /\ IsInstanceOfViewClass(view, elem.el)
     /\ elem.el.e = "ObjectLastModified" => rows # << >>)
    => IF elem.el.f \notin ModelFields THEN exc = "ImproperlyConfigured"
       ELSE /\ exc = "none"
            /\ IF elem.el.e = "ObjectLastModified" THEN elem.val = rows[1]
               ELSE IF RowInstants = {} THEN elem.val = None
               ELSE /\ elem.val # None
                    /\ Utc(elem.val[1]) = SetMax(RowInstants)


(***************************************************************************)
(* A view one of whose configured last-modified elements names a field the *)
(* model lacks, a dispatch of it being under way or over.                  *)
(***************************************************************************)
ReferencesMissingField ==
    /\ view.kind \in {"detail", "list"}
    /\ view.field \notin ModelFields
    /\ pc # "idle"

RaisedToCaller(e) ==
    /\ pc = "raised"
    /\ exc = e
    /\ ret = "none" /\ out = "none"
    /\ resp = NoResponse /\ cond = NoResponse
    /\ Count(log, "evaluate") = 0
    /\ Count(log, "super_dispatch") = 0
    /\ Count(log, "get_last_modified") = 1

(***************************************************************************)
(* C12, as stated: when a configured last-modified element references a    *)
(* field the model does not have, dispatch raises ImproperlyConfigured to   *)
(* its caller: no response is produced, the evaluator is not asked, the    *)
(* wrapped handler is not invoked, the error is not retried or swallowed.  *)
(***************************************************************************)
C12_AsStated == ReferencesMissingField => RaisedToCaller("ImproperlyConfigured")

(***************************************************************************)
(* C12, amended: the same, provided the object the detail view is asked    *)
(* for exists; when it does not, get_object raises Http404 before any      *)
(* element is called, and that is what the caller gets - again without a   *)
(* response, the evaluator or the wrapped handler.                         *)
(***************************************************************************)
C12_MissingFieldRaises ==
    ReferencesMissingField =>
        IF view.kind = "detail" /\ rows = << >>
        THEN RaisedToCaller("Http404") /\ Count(log, "lm_element") = 0
        ELSE RaisedToCaller("ImproperlyConfigured")

C12_Witness ==
    /\ ReferencesMissingField
    /\ view.kind = "detail"
    /\ rows # << >>
    /\ exc = "ImproperlyConfigured"
    /\ Count(log, "lm_element") = 2


(***************************************************************************)
(* C13: calling an element against a view that is not an instance of the   *)
(* element's view_class fails with ValueError before value() is run: the   *)
(* call returns no value and none of value()'s effects - object lookup,    *)
(* query, file stat, render - happen.                                      *)
(***************************************************************************)
C13_CapabilityMismatch ==
    (pc = "called" /\ ~IsInstanceOfViewClass(view, elem.el))
    => /\ exc = "ValueError"
       /\ elem.val = None
       /\ \A i \in DOMAIN log : log[i] = "call"
       /\ resp # NoResponse => resp \in CallResponses

C13_Witness ==
    /\ pc = "called"
    /\ elem.el.e = "ObjectLastModified"
    /\ view.kind = "list"
    /\ rows # << >>
    /\ exc = "ValueError"
    /\ log = <<"call">>


(***************************************************************************)
(* C14: the post-render ETag elements are invoked only when the response   *)
(* carries no ETag after render and is not streaming: a streaming response *)
(* ends with no ETag header while the Last-Modified header dispatch set is *)
(* still on it, and a response that already carries a pre-render ETag      *)
(* keeps exactly that ETag as its final ETag.                              *)
(***************************************************************************)
C14_PostRenderElementsGuard ==
    /\ (Count(log, "get_post_render_etag") + Count(log, "post_element") > 0)
       => /\ PreRenderEtag = None
          /\ ~resp.streaming
    /\ (pc = "rendered" /\ resp.streaming /\ PreRenderEtag = None)
       => /\ resp.etag = None
          /\ resp.lm = SetResponseHeaders(HandlerResponse(view), None, lm).lm
          /\ Count(log, "post_element") = 0
    /\ (pc = "rendered" /\ PreRenderEtag # None)
       => /\ resp.etag = QuoteEtag(PreRenderEtagRaw)
          /\ etag = resp.etag
          /\ Count(log, "post_element") = 0

\* A streaming template response was rendered: it has its Last-Modified
\* header and no ETag although the view has a post-render ETag element.
C14_Witness ==
    /\ pc = "rendered"
    /\ resp.streaming
    /\ view.postElems # << >>
    /\ resp.lm # None
    /\ resp.etag = None
    /\ out = "resp"


(***************************************************************************)
(* C15: when the wrapped handler returns a response that has no            *)
(* post-render hook, dispatch returns that response with only the headers  *)
(* known before rendering: no callback is registered, no post-render ETag  *)
(* element is invoked for it, and get_post_render_etag called with a       *)
(* response that cannot render returns nothing without invoking any        *)
(* element.                                                                *)
(***************************************************************************)
C15_PlainResponse ==
    (pc = "returned" /\ ret = "resp" /\ ~resp.hasRender)
    => /\ resp = SetResponseHeaders(HandlerResponse(view), PreRenderEtag, lm)
       /\ resp.callbacks = 0
       /\ ~resp.rendered
       /\ Count(log, "get_post_render_etag") = 0
       /\ Count(log, "post_element") = 0
       /\ ~ENABLED Render
       /\ GetPostRenderEtag(view, resp) = [exc |-> "none", val |-> None, calls |-> 0]

\* A plain view that declares a post-render ETag element returned its
\* HttpResponse, which carries the pre-render ETag.
C15_Witness ==
    /\ pc = "returned"
    /\ ret = "resp"
    /\ ~resp.hasRender
    /\ view.postElems # << >>
    /\ resp.etag # None
    /\ resp.status = 200


(***************************************************************************)
(* The arguments set_response_headers is called with in                    *)
(* test_set_response_headers: no etag, a bare or a quoted one; no          *)
(* last-modified value or a timestamp.                                     *)
(***************************************************************************)
HeaderEtagValues == {None, <<84>>} \cup ClientEtags
HeaderLastModifiedValues == {None} \cup {Some(s) : s \in 0..MaxSec}

\* A view class that configures no element at all.
NoElementsView ==
    /\ view.kind \in {"base", "tmpl"}
    /\ view.lmDeclared = << >>
    /\ view.preElems = << >>
    /\ view.postElems = << >>

C17_AsStated ==
    Answered =>
       /\ ComputedEtag # None => Delivered.etag = ComputedEtag
       /\ lmRaw # None => Delivered.lm = Some(HttpDate(LmSecond))


(***************************************************************************)
(* C18: dispatch introduces no state shared between requests: after any    *)
(* number of dispatches of a view class - Detail/List subclasses that      *)
(* declare their own class-level last_modified_elements included - the     *)
(* class-level list still equals what was declared, and every dispatch     *)
(* evaluates the same elements as the first one did.                       *)
(***************************************************************************)
C18_AsStated ==
    /\ classLM = view.lmDeclared
    /\ (pc \notin {"idle", "raised"})
       => Count(log, "lm_element") = Len(view.lmDeclared) + Len(MixinElements(view))


RenderedContentEtagCalled ==
    /\ pc = "called"
    /\ elem.el = RenderedContentEtag
    /\ IsInstanceOfViewClass(view, elem.el)

C20_RenderedContentEtag ==
    /\ [](RenderedContentEtagCalled
          => /\ exc = "none"
             /\ resp.rendered
             /\ elem.val = Some(resp.content)
             /\ Count(log, "render") <= 1
             /\ Count(log, "render") = 1 => log[2] = "render")
    /\ [][(RenderedContentEtagCalled /\ pc' = "called" /\ log' # log)
          => /\ elem' = elem
             /\ resp' = resp
             /\ log' = log \o <<"call">>]_vars

\* The element was called twice on a response that the first call rendered,
\* the template file having been rewritten in between.
C20_Witness ==
    /\ RenderedContentEtagCalled
    /\ log = <<"call", "render", "call">>
    /\ elem.val = Some(resp.content)
    /\ resp.content # RenderedContent(tmpl)


(***************************************************************************)
(* C21: for a response that supports the post-render hook the post-render  *)
(* check runs exactly once per dispatch, after the body has been rendered  *)
(* and before the client has its answer; further render() calls - the one  *)
(* get_post_render_etag issues from inside the check included - neither    *)
(* run the check again nor recurse.                                        *)
(***************************************************************************)
C21_PostRenderCheckOnce ==
    /\ (pc = "returned" /\ ret = "resp" /\ resp.hasRender)
       => /\ ~Answered
          /\ Count(log, "evaluate") = 1
    /\ pc = "rendered"
       => /\ Answered
          /\ resp.rendered
          /\ Count(log, "render") = 1
          /\ Count(log, "evaluate") = 2
          /\ Count(log, "get_post_render_etag") <= 1
          /\ Count(log, "inner_callback") = 0
          /\ \E i, j \in DOMAIN log :
                /\ i < j
                /\ log[i] = "render"
                /\ log[j] = "evaluate"
                /\ \A k \in DOMAIN log :
                      /\ log[k] = "inner_render" => i < k /\ k < j
                      /\ log[k] = "render_noop" => j < k
                      /\ k > j => log[k] = "render_noop"

\* render() was called a second time on a response whose callback had
\* itself called render() from get_post_render_etag.
C21_Witness ==
    /\ pc = "rendered"
    /\ Count(log, "inner_render") = 1
    /\ Count(log, "render_noop") = 1
    /\ Count(log, "evaluate") = 2
    /\ Count(log, "post_element") = 1


(***************************************************************************)
(* C22: the wrapped handler is invoked at most once per dispatch, and      *)
(* exactly once whenever the pre-render check yields proceed; when the     *)
(* post-render check afterwards yields 304 or 412 only the response the    *)
(* client is given changes: what the handler did remains and the handler   *)
(* is not invoked again.                                                   *)
(***************************************************************************)
C22_HandlerOnce ==
    /\ Count(log, "super_dispatch") <= 1
    /\ pc \in {"returned", "rendered"}
       => (Count(log, "super_dispatch") = 1
              <=> Verdict(req, PreRenderEtag, lm) = "proceed")
    /\ (pc = "rendered" /\ out = "cond")
       => /\ Count(log, "super_dispatch") = 1
          /\ \E i, j \in DOMAIN log :
                i < j /\ log[i] = "super_dispatch" /\ log[j] = "render"
          /\ ret = "resp"
          /\ resp.status = 200
          /\ resp = [AddPostRenderCallback(
                        SetResponseHeaders(HandlerResponse(view), PreRenderEtag, lm))
                     EXCEPT !.rendered = TRUE, !.content = resp.content]
          /\ cond.status \in {304, 412}
          /\ Delivered = cond

\* The handler ran, and the post-render check answered 304 in place of its
\* response.
C22_Witness ==
    /\ pc = "rendered"
    /\ out = "cond"
    /\ cond.status = 304
    /\ Count(log, "super_dispatch") = 1
    /\ resp.rendered


(***************************************************************************)
(* C23: the response finally handed back is either the response the        *)
(* wrapped handler produced, changed only by added headers and by          *)
(* rendering, or a short-circuit response (304, 412) produced by the       *)
(* evaluator; no other response is created and the handler's response is   *)
(* set aside only for a short-circuit response.                            *)
(***************************************************************************)
C23_HandedBack ==
    Answered =>
       \/ /\ Delivered = resp
          /\ cond = NoResponse
          /\ Count(log, "super_dispatch") = 1
          /\ [resp EXCEPT !.etag = None, !.lm = None, !.rendered = FALSE,
                          !.content = << >>, !.callbacks = 0] = HandlerResponse(view)
          /\ resp.rendered => resp.content = RenderedContent(tmpl)
       \/ /\ Delivered = cond
          /\ cond.status \in {304, 412}
          /\ ~cond.hasRender
          /\ cond = ConditionalResponse(Verdict(req, etag, lm))
          /\ ret = "cond" => resp = NoResponse

\* The handler's template response came back rendered and with both headers.
C23_Witness ==
    /\ pc = "rendered"
    /\ Delivered = resp
    /\ resp.etag # None
    /\ resp.lm # None
    /\ resp.content # << >>
    /\ resp.status = 200


(***************************************************************************)
(* What is observed of a direct call of a helper.                          *)
(***************************************************************************)
HelperCalled(fn) == pc = "formatted" /\ elem.el = fn
Arg == elem.val.arg
Res == elem.val.res
\* The whole epoch second, in UTC, an instant falls into.
EpochSecond(d) == Utc(d) \div Sub

PrepNormalizes ==
    HelperCalled("_prep_last_modified")
    => IF Arg = None THEN Res = None
       ELSE /\ Res = Some(EpochSecond(Arg[1]))
            /\ \A d \in FmtInstants :
                  Utc(d) = Utc(Arg[1]) => PrepLastModified(Some(d)) = Res

(***************************************************************************)
(* C24, as stated: a last-modified instant is normalized to whole epoch    *)
(* seconds in UTC - the sub-second part is dropped, the same moment in two *)
(* time zones gives the same value - and _format_last_modified gives the   *)
(* same HTTP date for an instant and for that instant's epoch-second       *)
(* value, and nothing for nothing.                                         *)
(***************************************************************************)
C24_AsStated ==
    /\ PrepNormalizes
    /\ HelperCalled("_format_last_modified")
       => IF Arg = None THEN Res = None
          ELSE IF Arg[1].t = "datetime"
          THEN /\ Res = Some(HttpDate(EpochSecond(Arg[1].v)))
               /\ Res = FormatLastModifiedArg(NumArg(EpochSecond(Arg[1].v)))
          ELSE Res = Some(HttpDate(Arg[1].v))

(***************************************************************************)
(* C24, amended: the normalization is as stated; _format_last_modified     *)
(* gives the same HTTP date for an instant and for that instant's          *)
(* epoch-second value unless that value is 0: an instant within epoch      *)
(* second 0 gives the date of the epoch, the number 0 gives nothing, as    *)
(* nothing does.                                                           *)
(***************************************************************************)
C24_Normalization ==
    /\ PrepNormalizes
    /\ HelperCalled("_format_last_modified")
       => IF Arg = None THEN Res = None
          ELSE IF Arg[1].t = "datetime"
          THEN /\ Res = Some(HttpDate(EpochSecond(Arg[1].v)))
               /\ FormatLastModifiedArg(NumArg(EpochSecond(Arg[1].v)))
                     = IF EpochSecond(Arg[1].v) = 0 THEN None ELSE Res
          ELSE Res = IF Arg[1].v = 0 THEN None ELSE Some(HttpDate(Arg[1].v))

\* An instant of the local zone with a sub-second part was formatted.
C24_Witness ==
    /\ HelperCalled("_format_last_modified")
    /\ Arg # None
    /\ Arg[1].t = "datetime"
    /\ Arg[1].v.off = LocalOff
    /\ Utc(Arg[1].v) % Sub # 0
    /\ Res = Some(HttpDate(1))


(***************************************************************************)
(* C25: in a detail-view dispatch the object is put on the view at the     *)
(* start (view.object is set before any last-modified element runs) and    *)
(* later steps reuse it rather than fetch it again: the object lookup is   *)
(* performed at most once per dispatch.                                    *)
(***************************************************************************)
C25_AsStated ==
    (view.kind = "detail" /\ pc # "idle")
    => /\ \E i \in DOMAIN log :
             /\ log[i] = "get_object"
             /\ \A j \in DOMAIN log : log[j] = "lm_element" => i < j
       /\ Count(log, "get_object") <= 1


(***************************************************************************)
(* The ETag the post-render elements of the view produce for the body the  *)
(* template renders to.                                                    *)
(***************************************************************************)
FullEtag ==
    FormatEtag(GetPostRenderEtag(view,
        [HandlerResponse(view) EXCEPT !.content = RenderedContent(tmpl),
                                      !.rendered = TRUE]).val)

(***************************************************************************)
(* C26: a pre-render decision taken while the ETag is not yet known is     *)
(* consistent with the full information: whenever the pre-render check     *)
(* short-circuits with the ETag absent, the evaluator asked with the same  *)
(* request, the same last_modified and the ETag the post-render elements   *)
(* would produce gives the same verdict; a request whose If-Match equals   *)
(* the ETag of the rendered body is not answered 412.                      *)
(***************************************************************************)
C26_AsStated ==
    (/\ pc = "returned"
     /\ ret = "cond"
     /\ PreRenderEtag = None
     /\ view.postElems # << >>
     /\ HandlerResponse(view).hasRender
     /\ ~view.streaming)
    => /\ Verdict(req, FullEtag, lm) = Verdict(req, None, lm)
       /\ (FullEtag # None /\ req.if_match = <<FullEtag>>) => cond.status # 412


(***************************************************************************)
(* C27: an ETag contribution that is the empty string or the empty byte    *)
(* sequence is treated as blank, like nothing: it is dropped before the    *)
(* concatenation, a list whose only contributions are empty yields no      *)
(* ETag, and a template view whose rendered body is empty gets no ETag     *)
(* header (not the digest of the empty byte string).                       *)
(***************************************************************************)
EmptyContributions == {NoContribution, StrC(<< >>), BytesC(<< >>)}

RawEtag == IF PreRenderEtagRaw # None THEN PreRenderEtagRaw ELSE etagRaw

C28_QuotedOnce ==
    /\ (pc \in {"etag", "proceed", "returned", "rendered"} /\ etag # None)
       => /\ RawEtag # None
          /\ etag = DQUOTE \o RawEtag \o DQUOTE
          /\ PrepEtag(etag) = etag
          /\ FormatEtag(FormatEtag(RawEtag)) = etag
    /\ (resp # NoResponse /\ resp.etag # None)
       => /\ resp.etag = DQUOTE \o RawEtag \o DQUOTE
          /\ Count(resp.etag, DQUOTE[1]) = 2
          /\ SetResponseHeaders(resp, resp.etag, lm).etag = resp.etag

\* The post-render check quoted the digest of the rendered body and
\* set_response_headers formatted it once more.
C28_Witness ==
    /\ pc = "rendered"
    /\ out = "resp"
    /\ PreRenderEtagRaw = None
    /\ etagRaw # None
    /\ resp.etag = DQUOTE \o etagRaw \o DQUOTE


(***************************************************************************)
(* A last-modified argument whose normalized epoch value is 0: the number  *)
(* 0, or an instant within epoch second 0.                                 *)
(***************************************************************************)
NormalizesToZero(a) ==
    /\ a # None
    /\ IF a[1].t = "num" THEN a[1].v = 0 ELSE EpochSecond(a[1].v) = 0

(***************************************************************************)
(* C29, as stated: a last-modified value whose normalized epoch value is 0 *)
(* (the instant 1970-01-01T00:00:00Z, or the number 0) is handled as if    *)
(* nothing had been computed: _format_last_modified returns nothing for it *)
(* and set_response_headers attaches no Last-Modified header.              *)
(***************************************************************************)
C29_AsStated ==
    /\ (HelperCalled("_format_last_modified") /\ NormalizesToZero(Arg))
       => Res = None
    /\ (HelperCalled("set_response_headers") /\ NormalizesToZero(Arg.last_modified))
       => Res.lm = Arg.response.lm

(***************************************************************************)
(* C29, amended: that holds of the number 0, which is what dispatch passes *)
(* on once _prep_last_modified has normalized the instant an element       *)
(* returned; given the instant itself, _format_last_modified returns the   *)
(* HTTP date of the epoch and set_response_headers sets the header to it.  *)
(***************************************************************************)
C29_EpochZero ==
    /\ (HelperCalled("_format_last_modified") /\ NormalizesToZero(Arg))
       => Res = IF Arg[1].t = "num" THEN None ELSE Some(HttpDate(0))
    /\ (HelperCalled("set_response_headers") /\ NormalizesToZero(Arg.last_modified))
       => /\ Res.lm = IF Arg.last_modified[1].t = "num" THEN Arg.response.lm
                      ELSE Some(HttpDate(0))
          /\ Arg.last_modified[1].t = "datetime"
             => LET n == PrepLastModified(Some(Arg.last_modified[1].v))
                IN /\ n = Some(0)
                   /\ SetResponseHeadersArg(Arg.response, Arg.etag, NumArg(n[1])).lm
                         = Arg.response.lm
                   /\ SetResponseHeaders(Arg.response, Arg.etag, n).lm
                         = Arg.response.lm

\* set_response_headers was given an instant within epoch second 0 and set
\* the header to the date of the epoch.
C29_Witness ==
    /\ HelperCalled("set_response_headers")
    /\ NormalizesToZero(Arg.last_modified)
    /\ Arg.last_modified[1].t = "datetime"
    /\ Arg.response.lm = None
    /\ Res.lm = Some(HttpDate(0))


(***************************************************************************)
(* C30: for the Detail and List mixins every call of get_last_modified     *)
(* appends the template element and the model element to the view's        *)
(* last_modified_elements, and calling it again on unchanged data returns  *)
(* the same value: the duplicates that accumulate never change the         *)
(* aggregated Last-Modified.                                               *)
(***************************************************************************)
AppendedElements ==
    <<TemplateLastModified,
      IF view.kind = "detail" THEN ObjectLastModified(view.field)
      ELSE QuerySetLastModified(view.field)>>

RECURSIVE Repeated(_, _)
Repeated(seq, n) == IF n = 0 THEN << >> ELSE Repeated(seq, n - 1) \o seq

C30_RepeatedGetLastModified ==
    pc = "got_last_modified"
    => LET n == Count(log, "get_last_modified")
       IN /\ elem.val.res = elem.val.first
          /\ elem.val.res.exc = exc
          /\ IF exc = "Http404"
             THEN elem.val.elements = << >> /\ Count(log, "lm_element") = 0
             ELSE /\ elem.val.elements = Repeated(AppendedElements, n)
                  /\ exc = "none"
                     => /\ Count(log, "lm_element") = n * (n + 1)
                        /\ elem.val.res.val # None
                        /\ \A k \in 1..n :
                              BaseGetLastModified(Repeated(AppendedElements, k),
                                                  view, tmpl, rows, nullsFirst).val
                                 = elem.val.res.val

\* get_last_modified was called twice on one list view whose rows carry a
\* value later than the template's.
C30_Witness ==
    /\ pc = "got_last_modified"
    /\ view.kind = "list"
    /\ Count(log, "get_last_modified") = 2
    /\ Len(elem.val.elements) = 4
    /\ Len(rows) >= 2
    /\ elem.val.res.val # None
    /\ elem.val.res.val # TemplateLastModifiedValue(tmpl)

=============================================================================
